---- MODULE Spec2Model ----
(***************************************************************************)
(* Model of the asynchronous stock-analysis service, multi_agent_demo.py.  *)
(*                                                                         *)
(* One asyncio event loop serves every handler and every background task.  *)
(* A coroutine gives the loop up only at an await that suspends; the only  *)
(* such await of run_stock_analysis is client.get_tools() inside           *)
(* initialize_supervisor.  supervisor.stream() is a synchronous generator  *)
(* iterated by a plain for loop, so the task that runs it keeps the loop   *)
(* from its first update to its final write: `holder` is that task.        *)
(*                                                                         *)
(* The supervisor graph, the tool client and the language model are        *)
(* library code: the stream is an input that yields any update of Chunks,  *)
(* raises any error of StreamErrors, or ends.  datetime.now() timestamps   *)
(* of the transcript records are left out: no branch reads them.           *)
(*                                                                         *)
(* The repository holds two more services, each a process of its own with  *)
(* its own globals: the chat service fastapi_main.py (ChatSpec) and the    *)
(* stock analysis demo fastapi_multi_agent_demo.py (DemoSpec).  Their      *)
(* handlers await the agent, so their requests interleave at every await.  *)
(* A specification leaves the variables of the other services as Init set  *)
(* them.  FaultSpec is Spec with two more behaviours of the stream.        *)
(***************************************************************************)
EXTENDS Integers, Sequences, FiniteSets, TLC

\* ------------------------------------------------------------- bounds
MaxUpdates == 2       \* updates streamed in total, over all runs

\* ------------------------------------------------------------- inputs
\* The values uuid4() returns.  Which unused value it returns is immaterial,
\* so they are handed out in the order of IdOrder.
IdOrder == <<"uuid-1", "uuid-2">>
IDs == {IdOrder[i] : i \in DOMAIN IdOrder}
NoTask == "no task"

Sessions == {"default"}
Queries == {"Analyze promising NSE stocks for short-term trading"}

Subordinates == {"stock_finder_agent", "market_data_agent"}
Nodes == {"supervisor"} \cup Subordinates

MsgA == [type |-> "ai", content |-> "pick"]
MsgB == [type |-> "tool", content |-> "quote"]

\* A node's payload: node_update["messages"] either raises (the payload is
\* None or has no "messages" key) or is a list of messages.
Unusable == [usable |-> FALSE, messages |-> << >>]
Usable(h) == [usable |-> TRUE, messages |-> h]

Item(n, p) == [node |-> n, payload |-> p]

\* An update is a dict: its items in insertion order, node names distinct.
Chunks ==
  { <<Item("supervisor", Usable(<<MsgA, MsgB>>))>>,
    <<Item("supervisor", Unusable)>>,
    <<Item("stock_finder_agent", Usable(<<MsgA>>))>>,
    <<Item("stock_finder_agent", Usable(<<MsgA>>)),
      Item("market_data_agent", Unusable)>> }

\* An update under the name of a node that is not one of the graph's
UnknownAgentChunk == <<Item("forecast_agent", Usable(<<MsgA>>))>>

InitErrors == {"ConfigurationError"}
StreamErrors == {"UpstreamUnavailable"}
\* The exception of a tool call, when the graph library lets it through
ToolErrors == {"ToolException"}
PayloadErrorText == "'NoneType' object is not subscriptable"
KeyErrorText == "'analysis_id'"

NoRecommendation == "None"

\* The requests to the chat service and to the stock analysis demo: each is
\* one call of one handler.
Requests == {"request-1", "request-2"}

\* A request text, as the list of its characters
Whitespace == {" ", "\t", "\n"}
Messages == {<< >>, <<" ", "\t">>, <<"S", "F", "O">>}

InvokeErrors == {"RateLimitError"}

\* The session_id of a chat request, and the messages agent.ainvoke returns
ChatSessions == {"default", "session-2"}
Replies == {<<MsgA>>, <<MsgA, MsgB>>}

VARIABLES
  phase,             \* "boot", "serving" or "exited"
  startup,           \* the startup hook: "idle", "init_wait", "done", or
                     \* "failed" when initialization raised in it
  supervisor,        \* the global: "None" or "graph"
  client,            \* the global: number of the last client built, 0 = None
  analysis_results,  \* the global dict: analysis_id -> entry
  pc,                \* where run_stock_analysis(id) stands
  args,              \* its query and session_id
  all_messages,      \* its local all_messages
  final_chunk,       \* its local final_chunk, << >> for None
  chunks,            \* the updates its stream has yielded so far
  raised,            \* the text of the exception that initialize_supervisor
                     \* or the stream raised in it, "none" if neither did
  holder,            \* the task that occupies the event loop, NoTask if idle
  updates,           \* updates streamed so far, over all runs
  deleted,           \* the ids a delete_analysis has removed
  caller,            \* who awaits run_stock_analysis(id): "background" for
                     \* the task start_analysis queued, "analyze_sync" for
                     \* that handler, "none" while the id is unused
  returned,          \* the body analyze_sync answered for id, NoBody if none
  polled,            \* per id: the last 200 answer of get_analysis_result
                     \* and the last one before it that differed from it,
                     \* of the answers since the entry was last deleted
  response,          \* the last HTTP response sent: its status code, and
                     \* for a health answer its status text
  tool_fetches,      \* the calls of client.get_tools() so far
  agent,             \* fastapi_main.py: the global, the number of the last
                     \* agent built, 0 = None
  req                \* fastapi_main.py and fastapi_multi_agent_demo.py: the
                     \* requests, each with its handler, position and answer

vars == <<phase, startup, supervisor, client, analysis_results, pc, args,
          all_messages, final_chunk, chunks, raised, holder, updates,
          deleted, caller, returned, polled, response, tool_fetches, agent,
          req>>

runVars == <<pc, args, caller, all_messages, final_chunk, chunks, raised>>
initVars == <<phase, startup, supervisor, client>>

\* ------------------------------------------------- transcript records
Last(s) == s[Len(s)]

format_message_for_api(m) == [type |-> m.type, content |-> m.content]

RECURSIVE FormatAll(_)
FormatAll(ms) ==
  IF ms = << >> THEN << >>
  ELSE <<format_message_for_api(Head(ms))>> \o FormatAll(Tail(ms))

NodeUpdateRecord(n) ==
  [type |-> "node_update", content |-> "Update from node " \o n, agent |-> n]

ErrorRecord(text) ==
  [type |-> "error", content |-> "Error processing messages: " \o text]

\* Mutant: every message of the node kept, as with last_message=False
LastSlice_All(s) == s

\* messages[-1:] : the last element as a list, the empty list of an empty one
LastSlice(s) == IF s = << >> THEN << >> ELSE <<Last(s)>>

\* Mutant: the node_update record appended after the node's messages
NodeRecords_MessagesFirst(item, last_message) ==
  (IF item.payload.usable
     THEN FormatAll(IF last_message THEN LastSlice(item.payload.messages)
                                    ELSE item.payload.messages)
     ELSE <<ErrorRecord(PayloadErrorText)>>)
  \o <<NodeUpdateRecord(item.node)>>

\* One pass of the loop over update.items()
NodeRecords(item, last_message) ==
  <<NodeUpdateRecord(item.node)>> \o
  (IF item.payload.usable
     THEN FormatAll(IF last_message THEN LastSlice(item.payload.messages)
                                    ELSE item.payload.messages)
     ELSE <<ErrorRecord(PayloadErrorText)>>)

RECURSIVE extract_messages_from_update(_, _)
extract_messages_from_update(update, last_message) ==
  IF update = << >> THEN << >>
  ELSE NodeRecords(Head(update), last_message)
       \o extract_messages_from_update(Tail(update), last_message)

\* ------------------------------------------------------ store entries
RunningEntry(session_id) ==
  [status |-> "running", messages |-> << >>, session_id |-> session_id,
   progress |-> <<"Starting analysis...">>]

\* Mutant: the completed entry written without its final_recommendations
CompletedEntry_NoRecommendation(msgs, rec, session_id) ==
  [status |-> "completed", messages |-> msgs, session_id |-> session_id,
   progress |-> <<"Analysis completed successfully">>]

CompletedEntry(msgs, rec, session_id) ==
  [status |-> "completed", messages |-> msgs, final_recommendations |-> rec,
   session_id |-> session_id,
   progress |-> <<"Analysis completed successfully">>]

\* Mutant: a fixed text in place of str(e)
FailedEntry_FixedText(e, session_id) ==
  [status |-> "failed", messages |-> << >>, error |-> "Analysis failed",
   session_id |-> session_id, progress |-> <<"Analysis failed: ", e>>]

FailedEntry(e, session_id) ==
  [status |-> "failed", messages |-> << >>, error |-> e,
   session_id |-> session_id, progress |-> <<"Analysis failed: ", e>>]

\* Mutant: the dict replaced by one that holds the entry alone
Put_Alone(store, id, entry) == [k \in {id} |-> entry]

Put(store, id, entry) ==
  [k \in DOMAIN store \cup {id} |-> IF k = id THEN entry ELSE store[k]]

\* Mutant: analysis_results.clear()
Remove_Clear(store, id) == [k \in {} |-> store[k]]

Remove(store, id) == [k \in DOMAIN store \ {id} |-> store[k]]

NoArgs == [query |-> "", session_id |-> ""]
NoResponse == [code |-> 0]
NoBody == [code |-> 0]
NotPolled == [earlier |-> NoBody, last |-> NoBody]

\* A request that has not arrived
NoRequest ==
  [op |-> "none", pc |-> "idle", message |-> << >>, session_id |-> "",
   invoked |-> FALSE, input |-> << >>, reply |-> << >>, code |-> 0,
   final_chunk |-> << >>, body |-> NoBody]

Init ==
  /\ phase \in {"boot", "serving"}
  /\ startup = "idle"
  /\ supervisor = "None"
  /\ client = 0
  /\ analysis_results = [a \in {} |-> NoArgs]
  /\ pc = [a \in IDs |-> "unused"]
  /\ args = [a \in IDs |-> NoArgs]
  /\ all_messages = [a \in IDs |-> << >>]
  /\ final_chunk = [a \in IDs |-> << >>]
  /\ chunks = [a \in IDs |-> << >>]
  /\ raised = [a \in IDs |-> "none"]
  /\ caller = [a \in IDs |-> "none"]
  /\ returned = [a \in IDs |-> NoBody]
  /\ holder = NoTask
  /\ updates = 0
  /\ deleted = {}
  /\ polled = [a \in IDs |-> NotPolled]
  /\ response = NoResponse
  /\ tool_fetches = 0
  /\ agent = 0
  /\ req = [r \in Requests |-> NoRequest]

\* ------------------------------------------------ initialize_supervisor
\* startup_event: the hook calls initialize_supervisor, which finds the
\* global None, builds a client and awaits client.get_tools().
StartupBegin ==
  /\ phase = "boot" /\ startup = "idle" /\ holder = NoTask
  /\ supervisor = "None"
  /\ client' = client + 1
  /\ tool_fetches' = tool_fetches + 1
  /\ startup' = "init_wait"
  /\ UNCHANGED <<phase, supervisor, analysis_results, runVars, holder,
                 updates, deleted, returned, polled, response>>
  /\ UNCHANGED <<agent, req>>

\* get_tools answered and the agents and the supervisor graph were built.
StartupReturn ==
  /\ phase = "boot" /\ startup = "init_wait" /\ holder = NoTask
  /\ supervisor' = "graph"
  /\ startup' = "done"
  /\ phase' = "serving"
  /\ UNCHANGED <<client, analysis_results, runVars, holder, updates,
                 deleted, returned, polled, response>>
  /\ UNCHANGED <<agent, req, tool_fetches>>

\* get_tools or a constructor raised: the hook lets it through and the
\* server stops before it serves a request.
StartupRaise(e) ==
  /\ phase = "boot" /\ startup = "init_wait" /\ holder = NoTask
  /\ startup' = "failed"
  /\ phase' = "exited"
  /\ UNCHANGED <<supervisor, client, analysis_results, runVars, holder,
                 updates, deleted, returned, polled, response>>
  /\ UNCHANGED <<agent, req, tool_fetches>>

\* ---------------------------------------------------------- handlers
Serving == phase = "serving" /\ holder = NoTask

\* What `response` keeps of an answer: its status code.  The body of a 200
\* answer is ResultBody or StatusBody of the state the handler ran in.
Answer(op, a, code) == [code |-> code]

FreshIds ==
  {IdOrder[i] : i \in {j \in DOMAIN IdOrder :
                         /\ pc[IdOrder[j]] = "unused"
                         /\ \A k \in 1..(j - 1) : pc[IdOrder[k]] # "unused"}}

\* POST /analyze: a fresh uuid, the background task queued, and the answer.
\* Nothing is written to analysis_results here.
start_analysis(q, s) ==
  /\ Serving
  /\ \E a \in FreshIds :
       /\ pc' = [pc EXCEPT ![a] = "scheduled"]
       /\ args' = [args EXCEPT ![a] = [query |-> q, session_id |-> s]]
       /\ caller' = [caller EXCEPT ![a] = "background"]
       /\ response' = Answer("start_analysis", a, 200)
  /\ UNCHANGED <<initVars, analysis_results, all_messages, final_chunk,
                 chunks, raised, holder, updates, deleted, returned, polled>>
  /\ UNCHANGED <<agent, req, tool_fetches>>

\* The body of the answer of start_analysis
StartedBody(a, s) ==
  [analysis_id |-> a, status |-> "started", messages |-> << >>,
   final_recommendations |-> NoRecommendation, session_id |-> s]

\* result.get("final_recommendations")
GetFinal(entry) ==
  IF "final_recommendations" \in DOMAIN entry
    THEN entry.final_recommendations ELSE NoRecommendation

ResultBody(a) ==
  [code |-> 200, status |-> analysis_results[a].status,
   messages |-> analysis_results[a].messages,
   final_recommendations |-> GetFinal(analysis_results[a]),
   session_id |-> analysis_results[a].session_id]

\* GET /analysis/{id}
get_analysis_result(a) ==
  /\ Serving
  /\ IF a \notin DOMAIN analysis_results
       THEN /\ response' = Answer("get_analysis_result", a, 404)
            /\ polled' = polled
       ELSE /\ response' = Answer("get_analysis_result", a, 200)
            /\ polled' = [polled EXCEPT
                            ![a] = IF @.last = ResultBody(a) THEN @
                                   ELSE [earlier |-> @.last,
                                         last |-> ResultBody(a)]]
  /\ UNCHANGED <<initVars, analysis_results, runVars, holder, updates,
                 deleted, returned>>
  /\ UNCHANGED <<agent, req, tool_fetches>>

StatusBody(a) ==
  [code |-> 200, status |-> analysis_results[a].status,
   progress |-> analysis_results[a].progress,
   session_id |-> analysis_results[a].session_id]

\* GET /analysis/{id}/status
get_analysis_status(a) ==
  /\ Serving
  /\ response' = IF a \notin DOMAIN analysis_results
                   THEN Answer("get_analysis_status", a, 404)
                   ELSE Answer("get_analysis_status", a, 200)
  /\ UNCHANGED <<initVars, analysis_results, runVars, holder, updates,
                 deleted, returned, polled>>
  /\ UNCHANGED <<agent, req, tool_fetches>>

\* DELETE /analysis/{id}.  The record of the polls of an id is of the polls
\* since its entry was last deleted.
delete_analysis(a) ==
  /\ Serving
  /\ IF a \notin DOMAIN analysis_results
       THEN /\ response' = Answer("delete_analysis", a, 404)
            /\ UNCHANGED <<analysis_results, deleted, polled>>
       ELSE /\ analysis_results' = Remove(analysis_results, a)
            /\ response' = Answer("delete_analysis", a, 200)
            /\ deleted' = deleted \cup {a}
            /\ polled' = [polled EXCEPT ![a] = NotPolled]
  /\ UNCHANGED <<initVars, runVars, holder, updates, returned>>
  /\ UNCHANGED <<agent, req, tool_fetches>>

\* The body of the answer of health_check
HealthBody ==
  [code |-> 200, status |-> "healthy",
   supervisor_initialized |-> supervisor # "None",
   active_analyses |-> Cardinality(DOMAIN analysis_results)]

\* GET /health
health_check ==
  /\ Serving
  /\ response' = Answer("health_check", NoTask, HealthBody.code)
  /\ UNCHANGED <<initVars, analysis_results, runVars, holder, updates,
                 deleted, returned, polled>>
  /\ UNCHANGED <<agent, req, tool_fetches>>

\* The fields list_analyses subscripts of every entry
ListedFields == {"status", "session_id"}

\* result.get("progress", "Unknown")
GetProgress(entry) ==
  IF "progress" \in DOMAIN entry THEN entry.progress ELSE <<"Unknown">>

\* The body of the answer of list_analyses
ListBody ==
  [code |-> 200,
   analyses |-> [a \in DOMAIN analysis_results |->
                   [status |-> analysis_results[a].status,
                    session_id |-> analysis_results[a].session_id,
                    progress |-> GetProgress(analysis_results[a])]]]

\* GET /analyses: subscripting an entry that lacks one of the fields raises
\* KeyError, which the server answers with 500.
list_analyses ==
  /\ Serving
  /\ response' =
       IF \A a \in DOMAIN analysis_results :
            ListedFields \subseteq DOMAIN analysis_results[a]
         THEN Answer("list_analyses", NoTask, ListBody.code)
         ELSE Answer("list_analyses", NoTask, 500)
  /\ UNCHANGED <<initVars, analysis_results, runVars, holder, updates,
                 deleted, returned, polled>>
  /\ UNCHANGED <<agent, req, tool_fetches>>

\* -------------------------------------------------- run_stock_analysis
SetProgress(store, a, text) ==
  [store EXCEPT ![a] = [@ EXCEPT !.progress = text]]

\* The except clause: the entry is written whole, whatever was there.
Fail(store, a, e) == Put(store, a, FailedEntry(e, args[a].session_id))

\* The first statements of run_stock_analysis(a): the first write, then
\* either the await of initialize_supervisor (the global is None) or the
\* progress write and the call of stream().
FirstSteps(a, session_id) ==
  IF supervisor = "None"
    THEN /\ analysis_results' =
              Put(analysis_results, a, RunningEntry(session_id))
         /\ client' = client + 1
         /\ tool_fetches' = tool_fetches + 1
         /\ pc' = [pc EXCEPT ![a] = "init_wait"]
         /\ holder' = holder
    ELSE /\ analysis_results' =
              SetProgress(Put(analysis_results, a, RunningEntry(session_id)),
                          a, <<"Running multi-agent analysis...">>)
         /\ UNCHANGED <<client, tool_fetches>>
         /\ pc' = [pc EXCEPT ![a] = "streaming"]
         /\ holder' = a

\* The background task starts.
RunBegin(a) ==
  /\ Serving /\ pc[a] = "scheduled"
  /\ FirstSteps(a, args[a].session_id)
  /\ UNCHANGED <<phase, startup, supervisor, args, caller, all_messages,
                 final_chunk, chunks, raised, updates, deleted, returned,
                 polled, response>>
  /\ UNCHANGED <<agent, req>>

\* Mutant: the answer of start_analysis in place of the entry's fields
SyncBody_Started(store, a, session_id) ==
  [code |-> 200, status |-> "started", messages |-> << >>,
   final_recommendations |-> NoRecommendation, session_id |-> session_id]

\* The body of the answer of analyze_sync, read from the entry
SyncBody(store, a, session_id) ==
  [code |-> 200, status |-> store[a].status, messages |-> store[a].messages,
   final_recommendations |-> GetFinal(store[a]), session_id |-> session_id]

\* POST /analyze/sync: a fresh uuid, and run_stock_analysis awaited in the
\* handler itself, which starts it at once.
analyze_sync(q, s) ==
  /\ Serving
  /\ \E a \in FreshIds :
       /\ args' = [args EXCEPT ![a] = [query |-> q, session_id |-> s]]
       /\ caller' = [caller EXCEPT ![a] = "analyze_sync"]
       /\ FirstSteps(a, s)
  /\ UNCHANGED <<phase, startup, supervisor, all_messages, final_chunk,
                 chunks, raised, updates, deleted, returned, polled,
                 response>>
  /\ UNCHANGED <<agent, req>>

\* run_stock_analysis(a) has made its last write and returns to its caller:
\* the background task is over; analyze_sync reads the entry, which that
\* write has just stored, and answers 200.
Returns(a) ==
  IF caller[a] = "analyze_sync"
    THEN /\ returned' = [returned EXCEPT
                           ![a] = SyncBody(analysis_results', a,
                                           args[a].session_id)]
         /\ response' = Answer("analyze_sync", a, 200)
    ELSE UNCHANGED <<returned, response>>

\* get_tools answered: the graph is built and stored in the global, and the
\* task goes on to its progress write, which raises KeyError when the entry
\* is gone.
InitReturn(a) ==
  /\ Serving /\ pc[a] = "init_wait"
  /\ supervisor' = "graph"
  /\ IF a \in DOMAIN analysis_results
       THEN /\ analysis_results' =
                 SetProgress(analysis_results, a,
                             <<"Running multi-agent analysis...">>)
            /\ pc' = [pc EXCEPT ![a] = "streaming"]
            /\ holder' = a
            /\ UNCHANGED <<returned, response>>
       ELSE /\ analysis_results' = Fail(analysis_results, a, KeyErrorText)
            /\ pc' = [pc EXCEPT ![a] = "done"]
            /\ holder' = holder
            /\ Returns(a)
  /\ UNCHANGED <<phase, startup, client, args, caller, all_messages,
                 final_chunk, chunks, raised, updates, deleted, polled>>
  /\ UNCHANGED <<agent, req, tool_fetches>>

\* initialize_supervisor raised.
InitRaise(a, e) ==
  /\ Serving /\ pc[a] = "init_wait"
  /\ raised' = [raised EXCEPT ![a] = e]
  /\ analysis_results' = Fail(analysis_results, a, e)
  /\ pc' = [pc EXCEPT ![a] = "done"]
  /\ Returns(a)
  /\ UNCHANGED <<initVars, args, caller, all_messages, final_chunk, chunks,
                 holder, updates, deleted, polled>>
  /\ UNCHANGED <<agent, req, tool_fetches>>

\* One pass of the for loop over supervisor.stream(), msgs being the value
\* of all_messages after it.
StreamStep(a, c, msgs) ==
  /\ phase = "serving" /\ holder = a /\ pc[a] = "streaming"
  /\ updates < MaxUpdates
  /\ all_messages' = [all_messages EXCEPT ![a] = msgs]
  /\ final_chunk' = [final_chunk EXCEPT ![a] = c]
  /\ chunks' = [chunks EXCEPT ![a] = Append(@, c)]
  /\ IF a \in DOMAIN analysis_results
       THEN /\ analysis_results' =
                 SetProgress(
                   [analysis_results EXCEPT ![a].messages = msgs],
                   a, <<"Processing... (", Len(msgs), " updates)">>)
            /\ UNCHANGED <<pc, holder, returned, response>>
       ELSE /\ analysis_results' = Fail(analysis_results, a, KeyErrorText)
            /\ pc' = [pc EXCEPT ![a] = "done"]
            /\ holder' = NoTask
            /\ Returns(a)
  /\ updates' = updates + 1
  /\ UNCHANGED <<initVars, args, caller, raised, deleted, polled>>
  /\ UNCHANGED <<agent, req, tool_fetches>>

\* Mutant: all_messages = formatted_messages, the earlier records lost
StreamChunk_Replace(a, c) ==
  StreamStep(a, c, extract_messages_from_update(c, TRUE))

\* Mutant: the records of the update put before the earlier ones
StreamChunk_Prepend(a, c) ==
  StreamStep(a, c, extract_messages_from_update(c, TRUE) \o all_messages[a])

\* all_messages.extend(formatted_messages)
StreamChunk(a, c) ==
  StreamStep(a, c, all_messages[a] \o extract_messages_from_update(c, TRUE))

\* Mutant: the except clause inside the loop, which then goes on
StreamRaise_KeepsLooping(a, e) ==
  /\ phase = "serving" /\ holder = a /\ pc[a] = "streaming"
  /\ raised' = [raised EXCEPT ![a] = e]
  /\ analysis_results' = Fail(analysis_results, a, e)
  /\ UNCHANGED <<initVars, pc, holder, args, caller, all_messages,
                 final_chunk, chunks, updates, deleted, returned, polled,
                 response>>
  /\ UNCHANGED <<agent, req, tool_fetches>>

\* The stream raised.
StreamRaise(a, e) ==
  /\ phase = "serving" /\ holder = a /\ pc[a] = "streaming"
  /\ raised' = [raised EXCEPT ![a] = e]
  /\ analysis_results' = Fail(analysis_results, a, e)
  /\ pc' = [pc EXCEPT ![a] = "done"]
  /\ holder' = NoTask
  /\ Returns(a)
  /\ UNCHANGED <<initVars, args, caller, all_messages, final_chunk, chunks,
                 updates, deleted, polled>>
  /\ UNCHANGED <<agent, req, tool_fetches>>

NodeNames(update) == {update[i].node : i \in DOMAIN update}

\* final_chunk["supervisor"]
PayloadOf(update, n) ==
  update[CHOOSE i \in DOMAIN update : update[i].node = n].payload

HasSupervisor(update) == update # << >> /\ "supervisor" \in NodeNames(update)

\* The stream ended: the final recommendation is read from the last update
\* and the completed entry written; reading a payload without messages
\* raises, and the except clause writes the failed entry.
StreamEnd(a) ==
  /\ phase = "serving" /\ holder = a /\ pc[a] = "streaming"
  /\ analysis_results' =
       IF HasSupervisor(final_chunk[a])
            /\ ~PayloadOf(final_chunk[a], "supervisor").usable
         THEN Fail(analysis_results, a, PayloadErrorText)
         ELSE Put(analysis_results, a,
                  CompletedEntry(
                    all_messages[a],
                    IF HasSupervisor(final_chunk[a])
                         /\ PayloadOf(final_chunk[a], "supervisor").messages # << >>
                      THEN Last(PayloadOf(final_chunk[a], "supervisor").messages).content
                      ELSE "",
                    args[a].session_id))
  /\ pc' = [pc EXCEPT ![a] = "done"]
  /\ holder' = NoTask
  /\ Returns(a)
  /\ UNCHANGED <<initVars, args, caller, all_messages, final_chunk, chunks,
                 raised, updates, deleted, polled>>
  /\ UNCHANGED <<agent, req, tool_fetches>>

Next ==
  \/ StartupBegin
  \/ StartupReturn
  \/ \E e \in InitErrors : StartupRaise(e)
  \/ \E q \in Queries, s \in Sessions : start_analysis(q, s)
  \/ \E q \in Queries, s \in Sessions : analyze_sync(q, s)
  \/ \E a \in IDs : get_analysis_result(a)
  \/ \E a \in IDs : get_analysis_status(a)
  \/ \E a \in IDs : delete_analysis(a)
  \/ health_check
  \/ list_analyses
  \/ \E a \in IDs : RunBegin(a)
  \/ \E a \in IDs : InitReturn(a)
  \/ \E a \in IDs, e \in InitErrors : InitRaise(a, e)
  \/ \E a \in IDs, c \in Chunks : StreamChunk(a, c)
  \/ \E a \in IDs, e \in StreamErrors : StreamRaise(a, e)
  \/ \E a \in IDs : StreamEnd(a)

Spec == Init /\ [][Next]_vars

\* The same service with two more things the stream can do: yield an update
\* of an unregistered node, and raise the exception of a tool call.
FaultNext ==
  \/ Next
  \/ \E a \in IDs : StreamChunk(a, UnknownAgentChunk)
  \/ \E a \in IDs, e \in ToolErrors : StreamRaise(a, e)

FaultSpec == Init /\ [][FaultNext]_vars

\* ------------------------------- extract_messages_from_update, on its own
\* The function applied to any dict update: up to one item per node, each
\* with a payload without messages, or with none, one or two messages.
Payloads ==
  {Unusable, Usable(<< >>), Usable(<<MsgA>>), Usable(<<MsgA, MsgB>>)}

Updates ==
  {u \in UNION {[1..n -> {Item(nd, p) : nd \in Nodes, p \in Payloads}] :
                  n \in 0..Cardinality(Nodes)} :
     \A i, j \in DOMAIN u : u[i].node = u[j].node => i = j}

\* A call extract_messages_from_update(update, last_message): the argument
\* is kept in final_chunk and the list returned in all_messages, under the
\* first id.
Extract(update, last_message) ==
  /\ pc[IdOrder[1]] \in {"unused", "extracted_last", "extracted_all"}
  /\ pc' = [pc EXCEPT ![IdOrder[1]] = IF last_message THEN "extracted_last"
                                      ELSE "extracted_all"]
  /\ final_chunk' = [final_chunk EXCEPT ![IdOrder[1]] = update]
  /\ all_messages' =
       [all_messages EXCEPT
          ![IdOrder[1]] = extract_messages_from_update(update, last_message)]
  /\ UNCHANGED <<initVars, analysis_results, args, caller, chunks, raised,
                 holder, updates, deleted, returned, polled, response,
                 tool_fetches, agent, req>>

ExtractNext ==
  \E u \in Updates, last_message \in BOOLEAN : Extract(u, last_message)

ExtractSpec == Init /\ [][ExtractNext]_vars

\* ======================================= fastapi_main.py: the chat service
\* The chat service is a process of its own: it has no analysis store.
analysisVars ==
  <<analysis_results, runVars, holder, deleted, returned, polled>>

\* str.strip(): leading and trailing whitespace removed
RECURSIVE lstrip(_)
lstrip(m) ==
  IF m # << >> /\ Head(m) \in Whitespace THEN lstrip(Tail(m)) ELSE m

RECURSIVE rstrip(_)
rstrip(m) ==
  IF m # << >> /\ Last(m) \in Whitespace
    THEN rstrip(SubSeq(m, 1, Len(m) - 1)) ELSE m

strip(m) == rstrip(lstrip(m))

\* startup_event: initialize_agent finds the global None, builds a client
\* and awaits client.get_tools().
ChatStartupBegin ==
  /\ phase = "boot" /\ startup = "idle"
  /\ agent = 0
  /\ client' = client + 1
  /\ tool_fetches' = tool_fetches + 1
  /\ startup' = "init_wait"
  /\ UNCHANGED <<phase, agent, req, response, supervisor, updates,
                 analysisVars>>

ChatStartupReturn ==
  /\ phase = "boot" /\ startup = "init_wait"
  /\ agent' = agent + 1
  /\ startup' = "done"
  /\ phase' = "serving"
  /\ UNCHANGED <<client, tool_fetches, req, response, supervisor, updates,
                 analysisVars>>

\* The hook lets the exception through and the server stops.
ChatStartupRaise(e) ==
  /\ phase = "boot" /\ startup = "init_wait"
  /\ startup' = "failed"
  /\ phase' = "exited"
  /\ UNCHANGED <<client, tool_fetches, agent, req, response, supervisor,
                 updates, analysisVars>>

Answered(r, code) == [r EXCEPT !.pc = "done", !.code = code]

\* Mutant: the session_id passed to the agent as the thread of the
\* conversation
AgentInput_Thread(r) ==
  <<[role |-> "user", content |-> r.message, thread |-> r.session_id]>>

\* The "messages" of the argument of agent.ainvoke
AgentInput(r) == <<[role |-> "user", content |-> r.message]>>

\* A handler past its call of initialize_agent.  chat_endpoint raises
\* HTTPException(400) for a blank message inside its try block, whose
\* except Exception clause catches it and raises HTTPException(500);
\* chat_stream_endpoint does not look at the message; get_tools calls
\* client.get_tools().
Proceed(r) ==
  IF r.op = "chat_endpoint" /\ strip(r.message) = << >>
    THEN Answered(r, 500)
  ELSE IF r.op = "get_tools"
    THEN [r EXCEPT !.pc = "fetch_wait"]
  ELSE [r EXCEPT !.pc = "invoke_wait", !.invoked = TRUE,
                 !.input = AgentInput(r)]

\* The request of an answered handler is the last response sent
Respond(r) ==
  response' = IF req'[r].pc = "done" THEN [code |-> req'[r].code]
              ELSE response

\* A handler from its first statement to its first await that suspends.
\* uninitialized is the handler's test: agent is None, or client is None.
Handle(r, op, m, s, uninitialized) ==
  /\ phase = "serving" /\ req[r].pc = "idle"
  /\ LET arrived ==
         [NoRequest EXCEPT !.op = op, !.message = m, !.session_id = s]
     IN IF uninitialized /\ agent = 0
          THEN /\ client' = client + 1
               /\ tool_fetches' = tool_fetches + 1
               /\ req' = [req EXCEPT ![r] = [arrived EXCEPT !.pc = "init_wait"]]
          ELSE /\ client' = client
               /\ tool_fetches' =
                    tool_fetches + (IF op = "get_tools" THEN 1 ELSE 0)
               /\ req' = [req EXCEPT ![r] = Proceed(arrived)]
  /\ Respond(r)
  /\ UNCHANGED <<phase, startup, agent, supervisor, updates, analysisVars>>

\* GET /health
chat_health_check ==
  /\ phase = "serving"
  /\ response' = [code |-> 200, status |-> "healthy",
                  agent_initialized |-> agent # 0]
  /\ UNCHANGED <<phase, startup, client, tool_fetches, agent, req,
                 supervisor, updates, analysisVars>>

\* POST /chat
chat_endpoint(r, m, s) == Handle(r, "chat_endpoint", m, s, agent = 0)

\* POST /chat/stream
chat_stream_endpoint(r, m, s) ==
  Handle(r, "chat_stream_endpoint", m, s, agent = 0)

\* GET /tools
get_tools(r) == Handle(r, "get_tools", << >>, "", client = 0)

\* initialize_agent, awaited by a handler: get_tools answered, the agent is
\* built and stored in the global, and the handler goes on.
AgentInitReturn(r) ==
  /\ phase = "serving" /\ req[r].pc = "init_wait"
  /\ req[r].op \in {"chat_endpoint", "chat_stream_endpoint", "get_tools"}
  /\ agent' = agent + 1
  /\ req' = [req EXCEPT ![r] = Proceed(@)]
  /\ tool_fetches' =
       tool_fetches + (IF req[r].op = "get_tools" THEN 1 ELSE 0)
  /\ Respond(r)
  /\ UNCHANGED <<phase, startup, client, supervisor, updates, analysisVars>>

\* An await of the handler raised (initialize_agent, agent.ainvoke or
\* client.get_tools): the except clause answers 500.
AwaitRaise(r, e) ==
  /\ phase = "serving"
  /\ req[r].pc \in {"init_wait", "invoke_wait", "fetch_wait"}
  /\ req[r].op \in {"chat_endpoint", "chat_stream_endpoint", "get_tools"}
  /\ req' = [req EXCEPT ![r] = Answered(@, 500)]
  /\ Respond(r)
  /\ UNCHANGED <<phase, startup, client, tool_fetches, agent, supervisor,
                 updates, analysisVars>>

\* ChatResponse(response=agent_response["messages"][-1].content,
\*              session_id=request.session_id)
ChatBody(r, reply) ==
  [code |-> 200, response |-> Last(reply).content, session_id |-> r.session_id]

\* agent.ainvoke answered with the messages reply: the handler answers 200
\* with the content of the last of them.
InvokeReturn(r, reply) ==
  /\ phase = "serving"
  /\ req[r].pc = "invoke_wait"
  /\ req[r].op \in {"chat_endpoint", "chat_stream_endpoint"}
  /\ req' = [req EXCEPT ![r] = [Answered(req[r], 200) EXCEPT
                                  !.reply = reply,
                                  !.body = ChatBody(req[r], reply)]]
  /\ Respond(r)
  /\ UNCHANGED <<phase, startup, client, tool_fetches, agent, supervisor,
                 updates, analysisVars>>

\* client.get_tools answered: the handler answers 200.
AwaitReturn(r) ==
  /\ phase = "serving"
  /\ req[r].pc = "fetch_wait"
  /\ req[r].op = "get_tools"
  /\ req' = [req EXCEPT ![r] = Answered(@, 200)]
  /\ Respond(r)
  /\ UNCHANGED <<phase, startup, client, tool_fetches, agent, supervisor,
                 updates, analysisVars>>

ChatNext ==
  \/ ChatStartupBegin
  \/ ChatStartupReturn
  \/ \E e \in InitErrors : ChatStartupRaise(e)
  \/ chat_health_check
  \/ \E r \in Requests, m \in Messages, s \in ChatSessions :
       chat_endpoint(r, m, s)
  \/ \E r \in Requests, m \in Messages, s \in ChatSessions :
       chat_stream_endpoint(r, m, s)
  \/ \E r \in Requests : get_tools(r)
  \/ \E r \in Requests : AgentInitReturn(r)
  \/ \E r \in Requests, e \in InvokeErrors : AwaitRaise(r, e)
  \/ \E r \in Requests, reply \in Replies : InvokeReturn(r, reply)
  \/ \E r \in Requests : AwaitReturn(r)

ChatSpec == Init /\ [][ChatNext]_vars

\* ================== fastapi_multi_agent_demo.py: the stock analysis demo
\* This service is a process of its own too: a global supervisor, no store.
\* Its handler analyze_stocks iterates supervisor.astream() with async for,
\* which gives the event loop up at every update.
demoFrame == <<agent, analysisVars>>

\* The default query, as a text of one piece
DefaultQuery == <<"Analyze promising NSE stocks for short-term trading">>

\* The "messages" of the argument of astream(): request.query or the default
DemoInput(q) ==
  <<[role |-> "user", content |-> IF q = << >> THEN DefaultQuery ELSE q]>>

\* The updates of this service's stream: those of Chunks, and a supervisor
\* update with an empty list of messages
DemoChunks == Chunks \cup {<<Item("supervisor", Usable(<< >>))>>}

\* The answer of the except clause: HTTPException(500, "Analysis failed: e")
DemoFailed(r, e) ==
  [Answered(r, 500) EXCEPT !.body = [code |-> 500, detail |-> e]]

\* startup_event: initialize_agents finds the global None, builds a client
\* and awaits client.get_tools().
DemoStartupBegin ==
  /\ phase = "boot" /\ startup = "idle"
  /\ supervisor = "None"
  /\ client' = client + 1
  /\ tool_fetches' = tool_fetches + 1
  /\ startup' = "init_wait"
  /\ UNCHANGED <<phase, supervisor, req, response, updates, demoFrame>>

DemoStartupReturn ==
  /\ phase = "boot" /\ startup = "init_wait"
  /\ supervisor' = "graph"
  /\ startup' = "done"
  /\ phase' = "serving"
  /\ UNCHANGED <<client, tool_fetches, req, response, updates, demoFrame>>

\* The hook catches the exception, prints it, and returns: the server goes
\* on to serve with the global still None.
DemoStartupRaise(e) ==
  /\ phase = "boot" /\ startup = "init_wait"
  /\ startup' = "failed"
  /\ phase' = "serving"
  /\ UNCHANGED <<supervisor, client, tool_fetches, req, response, updates,
                 demoFrame>>

\* GET /health
demo_health_check ==
  /\ phase = "serving"
  /\ response' = [code |-> 200, status |-> "healthy",
                  message |-> "Stock Analysis API is running"]
  /\ UNCHANGED <<startup, phase, supervisor, client, tool_fetches, req,
                 updates, demoFrame>>

\* GET /agents/status
agents_status ==
  /\ phase = "serving"
  /\ response' = [code |-> 200, agents_initialized |-> supervisor # "None"]
  /\ UNCHANGED <<startup, phase, supervisor, client, tool_fetches, req,
                 updates, demoFrame>>

\* POST /analyze-stocks: initialize_agents returns the global at once when
\* it is built, and awaits client.get_tools() when it is not.
analyze_stocks(r, q) ==
  /\ phase = "serving" /\ req[r].pc = "idle"
  /\ LET arrived == [NoRequest EXCEPT !.op = "analyze_stocks", !.message = q]
     IN IF supervisor = "None"
          THEN /\ client' = client + 1
               /\ tool_fetches' = tool_fetches + 1
               /\ req' = [req EXCEPT ![r] = [arrived EXCEPT !.pc = "init_wait"]]
          ELSE /\ UNCHANGED <<client, tool_fetches>>
               /\ req' = [req EXCEPT ![r] = [arrived EXCEPT !.pc = "streaming",
                                                           !.invoked = TRUE,
                                                           !.input = DemoInput(q)]]
  /\ UNCHANGED <<startup, phase, supervisor, response, updates, demoFrame>>

\* POST /quick-analysis: analyze_stocks with the query ""
quick_analysis(r) == analyze_stocks(r, << >>)

\* initialize_agents, awaited by analyze_stocks: get_tools answered, the
\* graph is built and stored in the global, and astream() is called.
DemoInitReturn(r) ==
  /\ phase = "serving"
  /\ req[r].op = "analyze_stocks" /\ req[r].pc = "init_wait"
  /\ supervisor' = "graph"
  /\ req' = [req EXCEPT ![r] = [@ EXCEPT !.pc = "streaming", !.invoked = TRUE,
                                         !.input = DemoInput(req[r].message)]]
  /\ UNCHANGED <<startup, phase, client, tool_fetches, response, updates,
                 demoFrame>>

\* initialize_agents or the stream raised: the except clause answers 500.
DemoRaise(r, e) ==
  /\ phase = "serving"
  /\ req[r].op = "analyze_stocks" /\ req[r].pc \in {"init_wait", "streaming"}
  /\ req' = [req EXCEPT ![r] = DemoFailed(req[r], e)]
  /\ Respond(r)
  /\ UNCHANGED <<startup, phase, supervisor, client, tool_fetches, updates,
                 demoFrame>>

\* One pass of the async for loop
DemoStreamChunk(r, c) ==
  /\ phase = "serving"
  /\ req[r].op = "analyze_stocks" /\ req[r].pc = "streaming"
  /\ updates < MaxUpdates
  /\ req' = [req EXCEPT ![r] = [@ EXCEPT !.final_chunk = c]]
  /\ updates' = updates + 1
  /\ UNCHANGED <<startup, phase, supervisor, client, tool_fetches, response,
                 demoFrame>>

\* Mutant: the messages of tools left out
RECURSIVE process_messages_AiOnly(_)
process_messages_AiOnly(ms) ==
  IF ms = << >> THEN << >>
  ELSE (IF Head(ms).type = "tool" THEN << >>
        ELSE <<[role |-> "assistant", content |-> Head(ms).content,
                type |-> Head(ms).type]>>)
       \o process_messages_AiOnly(Tail(ms))

\* process_messages: every message has a content and no role
RECURSIVE process_messages(_)
process_messages(ms) ==
  IF ms = << >> THEN << >>
  ELSE <<[role |-> "assistant", content |-> Head(ms).content,
          type |-> Head(ms).type]>> \o process_messages(Tail(ms))

SuccessBody(final_messages) ==
  [code |-> 200, status |-> "success", data |-> process_messages(final_messages),
   final_message |-> IF final_messages = << >> THEN ""
                     ELSE Last(final_messages).content]

\* The stream ended: the answer is made of the supervisor's messages in the
\* last update.  Without a supervisor in it the handler raises
\* HTTPException(500), and reading a payload without messages raises; the
\* except clause catches either and answers 500.
DemoStreamEnd(r) ==
  /\ phase = "serving"
  /\ req[r].op = "analyze_stocks" /\ req[r].pc = "streaming"
  /\ LET last == req[r].final_chunk
     IN req' = [req EXCEPT ![r] =
                 IF ~HasSupervisor(last)
                   THEN DemoFailed(req[r], "No response from supervisor")
                 ELSE IF ~PayloadOf(last, "supervisor").usable
                   THEN DemoFailed(req[r], PayloadErrorText)
                 ELSE [Answered(req[r], 200) EXCEPT
                         !.body = SuccessBody(
                                    PayloadOf(last, "supervisor").messages)]]
  /\ Respond(r)
  /\ UNCHANGED <<startup, phase, supervisor, client, tool_fetches, updates,
                 demoFrame>>

DemoNext ==
  \/ DemoStartupBegin
  \/ DemoStartupReturn
  \/ \E e \in InitErrors : DemoStartupRaise(e)
  \/ demo_health_check
  \/ agents_status
  \/ \E r \in Requests, q \in Messages : analyze_stocks(r, q)
  \/ \E r \in Requests : quick_analysis(r)
  \/ \E r \in Requests : DemoInitReturn(r)
  \/ \E r \in Requests, e \in InitErrors \cup StreamErrors : DemoRaise(r, e)
  \/ \E r \in Requests, c \in DemoChunks : DemoStreamChunk(r, c)
  \/ \E r \in Requests : DemoStreamEnd(r)

DemoSpec == Init /\ [][DemoNext]_vars

\* ===================================================== the claims
Terminal == {"completed", "failed"}

Present(a) == a \in DOMAIN analysis_results

StatusOf(store, a) == IF a \in DOMAIN store THEN store[a].status ELSE "absent"

RECURSIVE Transcript(_)
\* The records of every update of a stream, in the order it yielded them
Transcript(cs) ==
  IF cs = << >> THEN << >>
  ELSE extract_messages_from_update(Head(cs), TRUE) \o Transcript(Tail(cs))

IsPrefix(s, t) == Len(s) <= Len(t) /\ SubSeq(t, 1, Len(s)) = s

\* C1: once delete_analysis(id) has succeeded, id is absent from the store in
\* every later state, whatever the background task of id does afterwards.
C1_DeletedStaysAbsent == \A a \in deleted : ~Present(a)

\* C2: an entry's status only moves running -> {completed, failed}: a
\* terminal status is kept by every step that keeps the entry, only
\* delete_analysis takes a terminal entry away, an entry is created or
\* re-created as running or failed, and a running entry never becomes
\* anything but running, completed, failed or deleted.
C2_Step(a) ==
  LET old == StatusOf(analysis_results, a)
      new == StatusOf(analysis_results', a)
  IN /\ old \in Terminal => new = old \/ (new = "absent" /\ a \in deleted')
     /\ old = "running" => new \in {"running", "completed", "failed", "absent"}
     /\ new \in {"absent", "pending", "running", "completed", "failed"}
     /\ new = "running" => old \in {"absent", "pending", "running"}

C2_TerminalIsFinal == [][\A a \in IDs : C2_Step(a)]_vars

\* C2 witness: a run failed, another completed, and a request was answered
\* after both.
C2_Witness ==
  \E a, b \in IDs :
    /\ Present(a) /\ analysis_results[a].status = "failed"
    /\ Present(b) /\ analysis_results[b].status = "completed"
    /\ polled[a].last.code = 200 /\ polled[a].last.status = "failed"
    /\ polled[b].last.code = 200 /\ polled[b].last.status = "completed"

\* C3: from the return of start_analysis until delete_analysis is called,
\* the id it returned is in the store.
C3_ExistsFromStart ==
  \A a \in IDs : pc[a] # "unused" /\ a \notin deleted => Present(a)

\* C4: a run consumes at most a fixed number of updates: one whose supervisor
\* keeps delegating is failed with TurnBudgetExceeded when it reaches the cap.
\* The source names no cap, so the formula takes the largest one the
\* explored streams can exceed.
TurnCap == MaxUpdates - 1

C4_TurnBudget ==
  \A a \in IDs :
    Len(chunks[a]) > TurnCap =>
      /\ Present(a)
      /\ analysis_results[a].status = "failed"
      /\ analysis_results[a].error = "TurnBudgetExceeded"

\* The texts an answer body carries
TextsOf(body) ==
  {body.status} \cup
  (IF "progress" \in DOMAIN body
     THEN {body.progress[i] : i \in DOMAIN body.progress} ELSE {}) \cup
  (IF "final_recommendations" \in DOMAIN body
     THEN {body.final_recommendations} ELSE {}) \cup
  (IF "messages" \in DOMAIN body
     THEN {body.messages[i].content : i \in DOMAIN body.messages} ELSE {})

\* C5: a run that ended through the except clause stays in the store until it
\* is deleted, both get_analysis_status and get_analysis_result answer
\* 'failed' for it, and both answers carry the error text.
C5_FailedRetrievable ==
  \A a \in IDs :
    /\ raised[a] # "none" /\ a \notin deleted => Present(a)
    /\ Present(a) /\ analysis_results[a].status = "failed" =>
         /\ StatusBody(a).status = "failed"
         /\ ResultBody(a).status = "failed"
         /\ analysis_results[a].error \in TextsOf(StatusBody(a))
         /\ analysis_results[a].error \in TextsOf(ResultBody(a))

\* C6: whatever initialize_supervisor or the stream raises, the run ends
\* normally with the entry 'failed' and its error the text of that exception
\* (until the entry is deleted).
C6_ErrorsRecorded ==
  \A a \in IDs :
    raised[a] # "none" =>
      /\ pc[a] = "done"
      /\ holder # a
      /\ Present(a) \/ a \in deleted
      /\ Present(a) =>
           /\ analysis_results[a].status = "failed"
           /\ analysis_results[a].error = raised[a]

\* C6 witness: the stream of one run and the initialisation of another have
\* raised, and both entries are in the store.
C6_Witness ==
  \E a, b \in IDs :
    /\ raised[a] \in StreamErrors /\ chunks[a] # << >> /\ Present(a)
    /\ raised[b] \in InitErrors /\ Present(b)

\* The records a step appends to the transcript of a
Appended(a) ==
  SubSeq(all_messages'[a], Len(all_messages[a]) + 1, Len(all_messages'[a]))

SubordinateRecords(recs) ==
  {i \in DOMAIN recs :
     recs[i].type = "node_update" /\ recs[i].agent \in Subordinates}

\* C7: no update adds more than one subordinate agent to the transcript: of
\* an update that names several, only the first-named is recorded.
C7_OneSubordinatePerTurn ==
  [][\A a \in IDs :
       Len(all_messages'[a]) >= Len(all_messages[a]) =>
         Cardinality(SubordinateRecords(Appended(a))) <= 1]_vars

\* A poll before the last one answered 200 with status st
EarlierSaw(a, st) ==
  polled[a].earlier.code = 200 /\ polled[a].earlier.status = st

LastSaw(a, st) == polled[a].last.code = 200 /\ polled[a].last.status = st

\* C8: of two successive polls of get_analysis_result, the earlier of which
\* saw the run 'running', the later returns at least as many messages; and
\* the messages a poll would return never get fewer while the entry stays
\* 'running'.
C8_PollsGrow ==
  /\ [](\A a \in IDs :
          EarlierSaw(a, "running") =>
            Len(polled[a].last.messages) >= Len(polled[a].earlier.messages))
  /\ [][\A a \in IDs :
          /\ StatusOf(analysis_results, a) = "running"
          /\ StatusOf(analysis_results', a) = "running"
          => Len(analysis_results'[a].messages)
               >= Len(analysis_results[a].messages)]_vars

\* C8 witness: a poll saw the run running, and a later one saw it completed
\* with the records of two updates.
C8_Witness ==
  \E a \in IDs :
    /\ EarlierSaw(a, "running") /\ LastSaw(a, "completed")
    /\ Len(chunks[a]) >= 2
    /\ Len(polled[a].last.messages) > Len(polled[a].earlier.messages)

PollsArePrefixes ==
  \A a \in IDs :
    polled[a].earlier.code = 200 =>
      IsPrefix(polled[a].earlier.messages, polled[a].last.messages)

OtherWork(a) ==
  \/ \E b \in IDs : get_analysis_status(b)
  \/ \E b \in IDs : get_analysis_result(b)
  \/ \E b \in IDs : delete_analysis(b)
  \/ \E q \in Queries, s \in Sessions : start_analysis(q, s)
  \/ \E q \in Queries, s \in Sessions : analyze_sync(q, s)
  \/ \E b \in IDs \ {a} :
       \/ RunBegin(b)
       \/ InitReturn(b)
       \/ \E e \in InitErrors : InitRaise(b, e)
       \/ \E c \in Chunks : StreamChunk(b, c)
       \/ \E e \in StreamErrors : StreamRaise(b, e)
       \/ StreamEnd(b)

\* C10: while a run is between two updates of its stream, a request or a
\* step of another run can be taken.
C10_LoopNotBlocked ==
  \A a \in IDs :
    pc[a] = "streaming" /\ chunks[a] # << >> => ENABLED OtherWork(a)

\* A step of run_stock_analysis(a)
RunStep(a) ==
  \/ RunBegin(a)
  \/ /\ pc[a] = "unused" /\ pc'[a] # "unused"
     /\ \E q \in Queries, s \in Sessions : analyze_sync(q, s)
  \/ InitReturn(a)
  \/ \E e \in InitErrors : InitRaise(a, e)
  \/ \E c \in Chunks : StreamChunk(a, c)
  \/ \E e \in StreamErrors : StreamRaise(a, e)
  \/ StreamEnd(a)

\* Entry b is in the store after the step exactly if it was before it, and
\* with the same fields
SameEntry(b) ==
  /\ (b \in DOMAIN analysis_results') = (b \in DOMAIN analysis_results)
  /\ b \in DOMAIN analysis_results => analysis_results'[b] = analysis_results[b]

\* C11: a step of run_stock_analysis for analysis_id a (first write, progress
\* update, completed write, failed write) leaves the entry of every other id
\* as it was: present or absent, and with the same status, messages, progress
\* and session_id.
C11_RunsIsolated ==
  [][\A a \in IDs : RunStep(a) => \A b \in IDs \ {a} : SameEntry(b)]_vars

\* C11 witness: a run streamed an update and ended while the entry of an
\* earlier run, which had streamed one too, was in the store.
C11_Witness ==
  /\ Present("uuid-1") /\ analysis_results["uuid-1"].status = "completed"
  /\ analysis_results["uuid-1"].messages # << >>
  /\ Present("uuid-2") /\ analysis_results["uuid-2"].status \in Terminal
  /\ chunks["uuid-2"] # << >>

\* C12: delete_analysis of an id in the store answers 200, removes that entry
\* and leaves the others as they were; delete_analysis, get_analysis_result
\* and get_analysis_status of an id not in the store answer 404 and leave the
\* store as it was.
C12_DeleteFrame ==
  [][\A a \in IDs :
       /\ delete_analysis(a) /\ Present(a) =>
            /\ response'.code = 200
            /\ a \notin DOMAIN analysis_results'
            /\ \A b \in IDs \ {a} : SameEntry(b)
       /\ (\/ delete_analysis(a)
           \/ get_analysis_result(a)
           \/ get_analysis_status(a)) /\ ~Present(a) =>
            /\ response'.code = 404
            /\ analysis_results' = analysis_results]_vars

\* C12 witness: an entry was deleted while another was in the store, and a
\* request for the deleted id was answered 404 afterwards.
C12_Witness ==
  \E a \in deleted, b \in IDs :
    /\ ~Present(a) /\ Present(b) /\ analysis_results[b].messages # << >>
    /\ response.code = 404

\* C15: analyze_sync answers only once its run is 'completed' or 'failed';
\* the status, messages, final_recommendations and session_id it answers are
\* those get_analysis_result answers for the id right afterwards; and the
\* entry it leaves is the entry a run that start_analysis queued leaves when
\* it got the same query and session_id and its stream behaved the same.
C15_SyncEqualsAsync ==
  /\ [][\A a \in IDs :
          returned'[a] # returned[a] =>
            /\ caller[a] = "analyze_sync" /\ pc'[a] = "done"
            /\ StatusOf(analysis_results', a) \in Terminal
            /\ returned'[a] = ResultBody(a)']_vars
  /\ [](\A a, b \in IDs :
          /\ caller[a] = "analyze_sync" /\ caller[b] = "background"
          /\ pc[a] = "done" /\ pc[b] = "done"
          /\ args[a] = args[b] /\ chunks[a] = chunks[b]
          /\ raised[a] = raised[b]
          /\ a \notin deleted /\ b \notin deleted
          => /\ Present(a) /\ Present(b)
             /\ analysis_results[a] = analysis_results[b])

\* C15 witness: analyze_sync answered a completed run with a transcript, and
\* a run that start_analysis queued has ended after the same updates.
C15_Witness ==
  \E a, b \in IDs :
    /\ caller[a] = "analyze_sync" /\ caller[b] = "background"
    /\ returned[a].code = 200 /\ returned[a].status = "completed"
    /\ returned[a].messages # << >>
    /\ pc[b] = "done" /\ chunks[b] = chunks[a]
    /\ Present(a) /\ Present(b)

\* C13: a request whose message is empty or only whitespace is answered 400,
\* and the agent is not invoked for it (chat_endpoint, chat_stream_endpoint).
C13_BlankIs400 ==
  \A r \in Requests :
    /\ req[r].op \in {"chat_endpoint", "chat_stream_endpoint"}
    /\ strip(req[r].message) = << >>
    => /\ ~req[r].invoked
       /\ req[r].pc = "done" => req[r].code = 400

\* C14: in the life of the process client.get_tools() is called at most once,
\* and at most one client and one agent are built, however the startup hook
\* and the requests that call initialize_agent or /tools interleave.
C14_InitializedOnce == tool_fetches <= 1 /\ client <= 1 /\ agent <= 1

\* C16: when initialization fails in the startup hook the service does not
\* go on as if it had started: it is never the case that the hook is over,
\* initialization has failed in it, the service takes requests, and its
\* health answer says healthy.
C16_StartupFailureSurfaces ==
  ~(/\ startup = "failed" /\ phase = "serving"
    /\ response.code = 200 /\ "status" \in DOMAIN response
    /\ response.status = "healthy"
    /\ ENABLED (\E r \in Requests, q \in Messages : analyze_stocks(r, q)))

\* The records of a transcript that carry the content of a message
ContentRecords(recs) ==
  {i \in DOMAIN recs :
     recs[i].type \notin {"node_update", "error"} /\ recs[i].content # ""}

\* C17: a completed run's final_recommendations is the content of the last
\* message of the conversation that is not a routing message; in particular
\* it is not empty when the transcript holds a message with content.
C17_FinalRecommendation ==
  \A a \in IDs :
    Present(a) /\ analysis_results[a].status = "completed" =>
      LET recs == analysis_results[a].messages
      IN ContentRecords(recs) # {} =>
           /\ analysis_results[a].final_recommendations # ""
           /\ \E i \in ContentRecords(recs) :
                recs[i].content = analysis_results[a].final_recommendations

\* The names of the nodes of the updates a stream yielded
StreamedNodes(cs) == UNION {NodeNames(cs[i]) : i \in DOMAIN cs}

\* C18: a run whose stream has named a node that is not a registered agent
\* ends 'failed' with the error UnknownAgentSelected, and the update of that
\* node is not recorded.
C18_UnknownAgentFails ==
  \A a \in IDs :
    StreamedNodes(chunks[a]) \ Nodes # {} =>
      /\ \A i \in DOMAIN all_messages[a] :
           all_messages[a][i].type = "node_update"
             => all_messages[a][i].agent \in Nodes
      /\ pc[a] = "done" /\ Present(a) =>
           /\ analysis_results[a].status = "failed"
           /\ analysis_results[a].error = "UnknownAgentSelected"

\* C19: the failure of a tool call does not fail the run: a run whose stream
\* met one is not moved to 'failed' by it.
C19_ToolFailureAbsorbed ==
  \A a \in IDs :
    raised[a] \in ToolErrors /\ Present(a) =>
      analysis_results[a].status # "failed"

\* The node names of the node_update records of a transcript, in order
RECURSIVE NodeSequence(_)
NodeSequence(recs) ==
  IF recs = << >> THEN << >>
  ELSE (IF Head(recs).type = "node_update" THEN <<Head(recs).agent>>
        ELSE << >>) \o NodeSequence(Tail(recs))

\* C20: in the node updates recorded for a run, no subordinate agent comes
\* before the first supervisor update, and two subordinate agent updates
\* have a supervisor update between them.
C20_SupervisorFirst ==
  \A a \in IDs :
    LET ns == NodeSequence(all_messages[a])
    IN \A i \in DOMAIN ns :
         ns[i] \in Subordinates => i > 1 /\ ns[i - 1] = "supervisor"

\* The names under which a health answer tells whether the service is
\* initialized
HealthFlags == {"supervisor_initialized", "agent_initialized"}

IsHealthAnswer(resp) == "status" \in DOMAIN resp /\ resp.status = "healthy"

\* The singleton of the service is built: each service has one of the two
Initialized == supervisor # "None" \/ agent # 0

\* C21: every answer of a /health endpoint carries an initialization flag,
\* and the flag is true exactly when the service's singleton (with the tool
\* list it was built from) is constructed at the time of the answer.  In the
\* stock analysis demo the answer of health_check has a status and a message
\* and no flag.
C21_HealthFlagAccurate ==
  [][(IsHealthAnswer(response') /\ response' # response)
       => \E f \in HealthFlags \cap DOMAIN response' :
            response'[f] = Initialized']_vars

\* The update a step of run a has streamed, and a turn of it: a node of the
\* update; the records of the turn are those the step appended for the node
Streamed(a) == chunks'[a] # chunks[a]

TurnRecords(a, k) ==
  LET c == Last(chunks'[a])
  IN SubSeq(Appended(a),
            Len(extract_messages_from_update(SubSeq(c, 1, k - 1), TRUE)) + 1,
            Len(extract_messages_from_update(SubSeq(c, 1, k), TRUE)))

IsRoutingRecord(rec, n) == rec.type = "node_update" /\ rec.agent = n

\* The progress write of the loop, made after all_messages was extended
ProgressCounts(a) ==
  a \in DOMAIN analysis_results' =>
    /\ analysis_results'[a].messages = all_messages'[a]
    /\ analysis_results'[a].progress =
         <<"Processing... (", Len(all_messages'[a]), " updates)">>

\* C22 as stated: the records of a turn are the messages of the agent that
\* ran and then, last, the routing record naming that agent; the progress
\* written counts both.
C22_MessagesThenRouting ==
  [][\A a \in IDs :
       Streamed(a) =>
         /\ \A k \in DOMAIN Last(chunks'[a]) :
              LET t == TurnRecords(a, k)
              IN /\ t # << >>
                 /\ IsRoutingRecord(Last(t), Last(chunks'[a])[k].node)
                 /\ \A i \in 1..(Len(t) - 1) : t[i].type # "node_update"
         /\ ProgressCounts(a)]_vars

\* C22, amended: the records of a turn are, first, the routing record naming
\* the agent that ran and then that agent's last message (or one error
\* record); no message of a turn precedes its routing record; the progress
\* written counts both.
C22_RoutingThenMessages ==
  [][\A a \in IDs :
       Streamed(a) =>
         /\ \A k \in DOMAIN Last(chunks'[a]) :
              LET t == TurnRecords(a, k)
              IN /\ t # << >>
                 /\ IsRoutingRecord(Head(t), Last(chunks'[a])[k].node)
                 /\ \A i \in 2..Len(t) : t[i].type # "node_update"
         /\ ProgressCounts(a)]_vars

\* A running entry whose transcript holds a routing record and, after it,
\* the message of its turn, with the progress text counting both
C22_Witness ==
  \E a \in IDs :
    /\ Present(a) /\ analysis_results[a].status = "running"
    /\ Len(analysis_results[a].messages) = 2
    /\ IsRoutingRecord(analysis_results[a].messages[1], "stock_finder_agent")
    /\ analysis_results[a].messages[2] = format_message_for_api(MsgA)
    /\ analysis_results[a].progress = <<"Processing... (", 2, " updates)">>

Statuses == {"pending", "running", "completed", "failed"}

\* The fields the handlers read of an entry, and the fields of its outcome
WellFormed(entry) ==
  /\ {"status", "session_id", "messages", "progress"} \subseteq DOMAIN entry
  /\ entry.status \in Statuses
  /\ "final_recommendations" \in DOMAIN entry <=> entry.status = "completed"
  /\ "error" \in DOMAIN entry <=> entry.status = "failed"

C24_SyncCodeFollowsStatus ==
  \A a \in IDs :
    (caller[a] = "analyze_sync" /\ pc[a] = "done") =>
      /\ returned[a].code = 200 => returned[a].status = "completed"
      /\ returned[a].status = "failed" => returned[a].code = 500

InvokedChat(r) == req[r].op = "chat_endpoint" /\ req[r].invoked

\* C25: chat_endpoint is stateless across requests.  The input it gives the
\* agent is the one user message of the current request, so that two
\* requests with the same message give the agent the same input, whatever
\* was served before and whatever their session_id; its answer carries the
\* request's session_id and the content of the last message the agent
\* returned.
C25_ChatStateless ==
  /\ \A r1, r2 \in Requests :
       (InvokedChat(r1) /\ InvokedChat(r2)
          /\ req[r1].message = req[r2].message)
         => req[r1].input = req[r2].input
  /\ \A r \in Requests :
       InvokedChat(r) =>
         /\ req[r].input = <<[role |-> "user", content |-> req[r].message]>>
         /\ (req[r].pc = "done" /\ req[r].code = 200) =>
              /\ req[r].body.session_id = req[r].session_id
              /\ req[r].body.response = Last(req[r].reply).content

\* Two answered chat requests with the same message, different session ids
\* and different replies of the agent
C25_Witness ==
  \E r1, r2 \in Requests :
    /\ InvokedChat(r1) /\ InvokedChat(r2)
    /\ req[r1].code = 200 /\ req[r2].code = 200
    /\ req[r1].message = req[r2].message
    /\ req[r1].session_id # req[r2].session_id
    /\ req[r1].body.response # req[r2].body.response

\* The position of the k-th node_update record of recs, and the records
\* between it and the next one
RoutingPositions(recs) == {i \in DOMAIN recs : recs[i].type = "node_update"}

NthRouting(recs, k) ==
  CHOOSE i \in RoutingPositions(recs) :
    Cardinality({j \in RoutingPositions(recs) : j <= i}) = k

After(recs, k, n) ==
  SubSeq(recs, NthRouting(recs, k) + 1,
         IF k = n THEN Len(recs) ELSE NthRouting(recs, k + 1) - 1)

\* C26: extract_messages_from_update(update, last_message=True) returns,
\* for every dict update, the records of its nodes in order: of each node
\* one node_update record with the node's name, followed by the formatted
\* last message of the node, by nothing when the node has no message, or by
\* exactly one error record when the payload has no usable messages; a node
\* after one with an unusable payload is processed as any other.
C26_ExtractLastMessage ==
  pc[IdOrder[1]] = "extracted_last" =>
    LET update == final_chunk[IdOrder[1]]
        recs == all_messages[IdOrder[1]]
        n == Len(update)
    IN /\ Cardinality(RoutingPositions(recs)) = n
       /\ n > 0 => NthRouting(recs, 1) = 1
       /\ \A k \in 1..n :
            /\ recs[NthRouting(recs, k)].agent = update[k].node
            /\ LET after == After(recs, k, n)
                   payload == update[k].payload
               IN IF ~payload.usable
                    THEN Len(after) = 1 /\ after[1].type = "error"
                  ELSE IF payload.messages = << >>
                    THEN after = << >>
                  ELSE after = <<[type |-> Last(payload.messages).type,
                                  content |-> Last(payload.messages).content]>>

\* An update whose first node has no usable messages and whose second node
\* has two messages: four records
C26_Witness ==
  /\ pc[IdOrder[1]] = "extracted_last"
  /\ Len(final_chunk[IdOrder[1]]) = 2
  /\ ~final_chunk[IdOrder[1]][1].payload.usable
  /\ final_chunk[IdOrder[1]][2].payload = Usable(<<MsgA, MsgB>>)
  /\ Len(all_messages[IdOrder[1]]) = 4
  /\ all_messages[IdOrder[1]][2].type = "error"
  /\ all_messages[IdOrder[1]][4] = format_message_for_api(MsgB)

\* An answered request of analyze_stocks, and whether an exception of
\* initialize_agents or of the stream ended it
AnalyzeDone(r) == req[r].op = "analyze_stocks" /\ req[r].pc = "done"

EndedByException(r) ==
  req[r].code = 500 /\ req[r].body.detail \in InitErrors \cup StreamErrors

\* The success answer made of the supervisor's messages ms: one record per
\* message in order, and the content of the last message
SuccessOf(r, ms) ==
  /\ req[r].body.status = "success"
  /\ Len(req[r].body.data) = Len(ms)
  /\ \A i \in DOMAIN ms : req[r].body.data[i].content = ms[i].content
  /\ ms # << >> => req[r].body.final_message = Last(ms).content

\* What every answer of analyze_stocks satisfies, the stream having ended
\* with a last update for which `succeeds` holds
AnalyzeAnswers(r, succeeds) ==
  /\ req[r].code \in {200, 500}
  /\ req[r].invoked =>
       req[r].input[1].content =
         (IF req[r].message = << >> THEN DefaultQuery ELSE req[r].message)
  /\ req[r].code = 200 <=> (succeeds /\ ~EndedByException(r))
  /\ req[r].code = 200 =>
       SuccessOf(r, PayloadOf(req[r].final_chunk, "supervisor").messages)

\* C27 as stated: analyze_stocks answers 'success' exactly when the last
\* update streamed is a supervisor update, with data and final_message made
\* of its messages, and 500 in every other case; an empty query is replaced
\* by the default query.
C27_SuccessIffSupervisorLast ==
  \A r \in Requests :
    AnalyzeDone(r) => AnalyzeAnswers(r, HasSupervisor(req[r].final_chunk))

\* C27, amended: 'success' exactly when the last update streamed is a
\* supervisor update whose payload holds a list of messages; a supervisor
\* update without one is answered 500 like every other case.
C27_SuccessIffSupervisorMessages ==
  \A r \in Requests :
    AnalyzeDone(r) =>
      AnalyzeAnswers(r, /\ HasSupervisor(req[r].final_chunk)
                        /\ PayloadOf(req[r].final_chunk, "supervisor").usable)

\* One request with an empty query answered 'success' with two records, and
\* another answered 500 after a last update of another node
C27_Witness ==
  \E r1, r2 \in Requests :
    /\ AnalyzeDone(r1) /\ req[r1].code = 200 /\ req[r1].message = << >>
    /\ Len(req[r1].body.data) = 2 /\ req[r1].body.final_message = MsgB.content
    /\ AnalyzeDone(r2) /\ req[r2].code = 500
    /\ req[r2].final_chunk # << >> /\ ~HasSupervisor(req[r2].final_chunk)

====
